---- MODULE Spec2Model ----
(***************************************************************************)
(* Model of the repository-metrics scraper of mlops-mentor:                 *)
(*   src/src/mlops_mentor/scraper/main.py    (create_activity_matrix,       *)
(*                                            scrape)                       *)
(*   src/src/mlops_mentor/common/models.py   (GroupInfo)                    *)
(*   src/src/mlops_mentor/scraper/models.py  (RepoStats, Report,            *)
(*                                            RepoContent)                  *)
(*                                                                          *)
(* Python values are modelled as follows.                                   *)
(*   None            the empty tuple <<>>; a present value v is <<v>>       *)
(*                   wherever a variable or field may also hold None        *)
(*   list            a sequence                                             *)
(*   dict            a record / function on strings ("k" \in DOMAIN d)      *)
(*   str             a tuple of one-character strings where the code looks  *)
(*                   inside the string, a TLA+ string otherwise             *)
(*   datetime        minutes since 2024-01-01T00:00 (day 1 of the model)    *)
(*   timedelta       minutes                                                *)
(*   float a / b     the pair [num |-> a, den |-> b]                        *)
(***************************************************************************)
EXTENDS Integers, Sequences, FiniteSets, TLC

VARIABLES
    groups,        \* scrape: the list load_groups returned (GroupInfo objects)
    github,        \* what the data source holds for the repository of each group
    index,         \* scrape: position of the for loop in groups (1-based)
    pc,            \* scrape: the statement the run is at
    locals,        \* scrape: the function's local variables (they outlive an iteration)
    repo_stats,    \* scrape: the list of RepoStats records appended so far
    files,         \* the files present in the working directory
    requests,      \* the requests issued for the current group, in order
    probes,        \* the evaluations of repo_accessible of the current group, in order
    page_counter,  \* GroupInfo.prs / GroupInfo.commits: the loop's page counter
    exc,           \* the exception that ended the run, None while it runs
    call_args,     \* the arguments of a function applied on its own
    call_ret       \* what that function returned, None before the call

vars == <<groups, github, index, pc, locals, repo_stats, files, requests, probes,
          page_counter, exc, call_args, call_ret>>

scrapeVars == <<groups, github, index, pc, locals, repo_stats, files, requests, probes,
                page_counter, exc>>

callVars == <<call_args, call_ret>>

None == <<>>

Some(v) == <<v>>

Min2(a, b) == IF a <= b THEN a ELSE b

Max2(a, b) == IF a >= b THEN a ELSE b

\* hasattr(obj, name) / setattr(obj, name, v) on an object kept as a record
HasAttr(obj, name) == name \in DOMAIN obj

SetAttr(obj, name, v) == [k \in DOMAIN obj \cup {name} |-> IF k = name THEN v ELSE obj[k]]

RECURSIVE SumSeq(_)
SumSeq(s) == IF s = <<>> THEN 0 ELSE Head(s) + SumSeq(Tail(s))

\* sequences over S of length 1..n
SeqsUpTo(S, n) == UNION {[1..k -> S] : k \in 1..n}

(***************************************************************************)
(* datetime                                                                 *)
(***************************************************************************)
MinutesPerHour == 60

HoursPerDay == 24

MinutesPerDay == HoursPerDay * MinutesPerHour

\* An ISO timestamp "2024-01-DDTHH:MM:00Z" is the tuple <<DD, HH, MM, "Z">>
\* (days beyond 31 stand for the following months: day 36 is 02-05).
IsoDate(d, h, m) == <<d, h, m, "Z">>

\* date[:-1]
StripLast(s) == SubSeq(s, 1, Len(s) - 1)

\* datetime.datetime.fromisoformat of a stripped timestamp
fromisoformat(s) == ((s[1] - 1) * HoursPerDay + s[2]) * MinutesPerHour + s[3]

\* datetime.timedelta(weeks=w)
timedelta_weeks(w) == w * 7 * MinutesPerDay

\* timedelta.days (floor division, also for negative differences)
timedelta_days(delta) == delta \div MinutesPerDay

\* datetime.hour
datetime_hour(t) == (t \div MinutesPerHour) % HoursPerDay

(***************************************************************************)
(* create_activity_matrix  (scraper/main.py 18-46)                          *)
(***************************************************************************)
\* A commit as the commits listing returns it.  author / committer are the
\* GitHub account objects (None when the e-mail maps to no account).
Commit(date, message, author_login, author_name, committer_login, committer_name) ==
    [commit    |-> [author    |-> [name |-> author_name, date |-> date],
                    committer |-> [name |-> committer_name, date |-> date],
                    message   |-> message],
     author    |-> IF author_login = None THEN None ELSE Some([login |-> author_login[1]]),
     committer |-> IF committer_login = None THEN None
                   ELSE Some([login |-> committer_login[1]])]

\* lines 24-28: parse every committer date, then sort ascending
CommitTimes(commits) ==
    SortSeq([i \in 1..Len(commits) |->
                fromisoformat(StripLast(commits[i].commit.committer.date))],
            LAMBDA a, b : a < b)

EndTime_NoMaxDelta(start_time, last_time, max_delta, min_delta) ==
    Max2(start_time + timedelta_weeks(min_delta), last_time)

EndTime_NoMinDelta(start_time, last_time, max_delta, min_delta) ==
    Min2(start_time + timedelta_weeks(max_delta), last_time)

\* lines 31-34
EndTime(start_time, last_time, max_delta, min_delta) ==
    Max2(start_time + timedelta_weeks(min_delta),
         Min2(start_time + timedelta_weeks(max_delta), last_time))

NumDays_NoLastDay(start_time, end_time) == timedelta_days(end_time - start_time)

\* line 36
NumDays(start_time, end_time) == timedelta_days(end_time - start_time) + 1

\* line 38: np.zeros((num_days, 24), dtype=int); row d+1 is day_index d,
\* column h+1 is hour_index h
Zeros(num_days) == [d \in 1..num_days |-> [h \in 1..HoursPerDay |-> 0]]

InWindow_EndExclusive(start_time, commit_time, end_time) ==
    start_time <= commit_time /\ commit_time < end_time

\* line 41
InWindow(start_time, commit_time, end_time) ==
    start_time <= commit_time /\ commit_time <= end_time

\* line 43
HourIndex(commit_time) == datetime_hour(commit_time)

\* lines 40-44, from the i-th commit time on
RECURSIVE FillMatrix(_, _, _, _, _)
FillMatrix(commit_matrix, commit_times, start_time, end_time, i) ==
    IF i > Len(commit_times) THEN commit_matrix
    ELSE LET commit_time == commit_times[i]
             day_index   == timedelta_days(commit_time - start_time)
             hour_index  == HourIndex(commit_time)
             next == IF InWindow(start_time, commit_time, end_time)
                     THEN [commit_matrix EXCEPT ![day_index + 1][hour_index + 1] = @ + 1]
                     ELSE commit_matrix
         IN  FillMatrix(next, commit_times, start_time, end_time, i + 1)

\* The call as a whole: [exc, value].  commit_times[0] of an empty list is an
\* IndexError.
create_activity_matrix(commits, max_delta, min_delta) ==
    LET commit_times == CommitTimes(commits)
    IN  IF Len(commit_times) = 0
        THEN [exc |-> Some("IndexError"), value |-> None]
        ELSE LET start_time == commit_times[1]
                 end_time   == EndTime(start_time, commit_times[Len(commit_times)],
                                       max_delta, min_delta)
                 num_days   == NumDays(start_time, end_time)
             IN  [exc   |-> None,
                  value |-> FillMatrix(Zeros(num_days), commit_times,
                                       start_time, end_time, 1)]

(***************************************************************************)
(* The scraper at rest: the state of the scrape variables in the            *)
(* specifications that apply one function on its own.                       *)
(***************************************************************************)
ScrapeIdle ==
    /\ groups = <<>>
    /\ github = <<>>
    /\ index = 0
    /\ pc = "idle"
    /\ locals = <<>>
    /\ repo_stats = <<>>
    /\ files = <<>>
    /\ requests = <<>>
    /\ probes = <<>>
    /\ page_counter = 0
    /\ exc = None

(***************************************************************************)
(* SpecMatrix: create_activity_matrix applied to bounded commit lists       *)
(***************************************************************************)
MaxCommits == 3

\* Commit timestamps: the first day, days around the one-week and the
\* three-week boundary, and days beyond five weeks.
SampleDates ==
    { IsoDate(1, 10, 0),  IsoDate(1, 10, 30), IsoDate(2, 9, 0),  IsoDate(3, 23, 0),
      IsoDate(8, 10, 0),  IsoDate(22, 9, 59), IsoDate(22, 10, 0), IsoDate(40, 0, 0) }

\* <<max_delta, min_delta>>: the defaults (line 20-21), the values scrape
\* passes (line 123), and a call with no minimum width
SampleDeltas == { <<5, 1>>, <<3, 1>>, <<5, 0>> }

DatedCommit(date) == Commit(date, <<"m">>, None, <<"n">>, None, <<"n">>)

InitMatrix ==
    /\ ScrapeIdle
    /\ \E ds \in SeqsUpTo(SampleDates, MaxCommits), dl \in SampleDeltas :
          call_args = [commits   |-> [i \in 1..Len(ds) |-> DatedCommit(ds[i])],
                       max_delta |-> dl[1],
                       min_delta |-> dl[2]]
    /\ call_ret = None

CallCreateActivityMatrix ==
    /\ pc = "idle"
    /\ call_ret = None
    /\ "max_delta" \in DOMAIN call_args
    /\ call_ret' = Some(create_activity_matrix(call_args.commits, call_args.max_delta,
                                               call_args.min_delta))
    /\ UNCHANGED <<scrapeVars, call_args>>

NextMatrix == CallCreateActivityMatrix

SpecMatrix == InitMatrix /\ [][NextMatrix]_vars

\* --- what the claims below speak of, stated from the arguments alone ---
ArgTimes ==
    { fromisoformat(StripLast(call_args.commits[i].commit.committer.date)) :
        i \in 1..Len(call_args.commits) }

ArgStart == CHOOSE t \in ArgTimes : \A u \in ArgTimes : t <= u

ArgLatest == CHOOSE t \in ArgTimes : \A u \in ArgTimes : u <= t

ArgLow == ArgStart + call_args.min_delta * 7 * MinutesPerDay

ArgHigh == ArgStart + call_args.max_delta * 7 * MinutesPerDay

\* the latest commit time clamped into [start + min_delta, start + max_delta]
ArgClampedEnd ==
    IF ArgLatest < ArgLow THEN ArgLow
    ELSE IF ArgLatest > ArgHigh THEN ArgHigh
    ELSE ArgLatest

\* commits (with multiplicity) whose time lies in the window
ArgInWindow ==
    { i \in 1..Len(call_args.commits) :
        LET t == fromisoformat(StripLast(call_args.commits[i].commit.committer.date))
        IN  ArgStart <= t /\ t <= ArgClampedEnd }

MatrixReturned == call_ret # None /\ "max_delta" \in DOMAIN call_args

Matrix == call_ret[1].value

MatrixSum == SumSeq([d \in 1..Len(Matrix) |-> SumSeq(Matrix[d])])

ScrapeDeltas == call_args.max_delta = 3 /\ call_args.min_delta = 1

\* C2 (as stated): the row count is (clampedEnd - start).days + 1, at least 1,
\* and with min_delta=1, max_delta=3 never more than 21.
C2_RowsAtMost21 ==
    MatrixReturned =>
        /\ call_ret[1].exc = None
        /\ Len(Matrix) = (ArgClampedEnd - ArgStart) \div MinutesPerDay + 1
        /\ Len(Matrix) >= 1
        /\ (ScrapeDeltas => Len(Matrix) <= 21)

\* C2 (amended): the row count is (clampedEnd - start).days + 1, at least 1,
\* and with min_delta=1, max_delta=3 never more than 22 (3 weeks plus the
\* last day).
C2_RowCount ==
    MatrixReturned =>
        /\ call_ret[1].exc = None
        /\ Len(Matrix) = (ArgClampedEnd - ArgStart) \div MinutesPerDay + 1
        /\ Len(Matrix) >= 1
        /\ (ScrapeDeltas => Len(Matrix) <= 22)

\* a call with scrape's deltas whose commits span more than three weeks
C2_Witness ==
    /\ MatrixReturned
    /\ ScrapeDeltas
    /\ ArgLatest > ArgHigh
    /\ Len(Matrix) = 22

\* C3: the sum of all cells is the number of commits with start <= t <= end,
\* hence at most the number of commits passed in, and strictly less exactly
\* when some commit lies outside the clamped window.
C3_SumIsInWindowCount ==
    MatrixReturned =>
        /\ MatrixSum = Cardinality(ArgInWindow)
        /\ MatrixSum <= Len(call_args.commits)
        /\ (MatrixSum < Len(call_args.commits)
              <=> \E t \in ArgTimes : ~(ArgStart <= t /\ t <= ArgClampedEnd))

\* a call in which a commit later than the window's end was dropped, and one
\* commit lies exactly on the window's end
C3_Witness ==
    /\ MatrixReturned
    /\ MatrixSum < Len(call_args.commits)
    /\ MatrixSum >= 2
    /\ ArgClampedEnd \in ArgTimes

\* the commits of the example: 01-01T10:00Z, 01-01T10:30Z, 01-03T23:00Z
C7_Commits ==
    << DatedCommit(IsoDate(1, 10, 0)), DatedCommit(IsoDate(1, 10, 30)),
       DatedCommit(IsoDate(3, 23, 0)) >>

C7_Case ==
    /\ MatrixReturned
    /\ call_args.commits = C7_Commits
    /\ call_args.min_delta = 1
    /\ call_args.max_delta = 5

\* C7: for that example start is 01-01 (10:00), end is 01-08 (10:00, forced by
\* min_delta), the matrix has 8 rows of 24 columns, 2 at row 0 column 10,
\* 1 at row 2 column 23 and 0 elsewhere.
C7_Example ==
    C7_Case =>
        /\ CommitTimes(call_args.commits)[1] = fromisoformat(<<1, 10, 0>>)
        /\ EndTime(CommitTimes(call_args.commits)[1], CommitTimes(call_args.commits)[3],
                   5, 1) = fromisoformat(<<8, 10, 0>>)
        /\ Len(Matrix) = 8
        /\ \A d \in 1..8 : Len(Matrix[d]) = 24
        /\ \A d \in 1..8, h \in 1..24 :
              Matrix[d][h] = IF d = 1 /\ h = 11 THEN 2
                             ELSE IF d = 3 /\ h = 24 THEN 1
                             ELSE 0

C7_Witness == C7_Case /\ Matrix[1][11] = 2 /\ Matrix[3][24] = 1

\* the calendar date of a time, as days since the first day
CalendarDay(t) == t \div MinutesPerDay

\* the commits inside the window whose calendar date is d days after that of
\* the earliest commit and whose hour is h
OnDayAndHour(d, h) ==
    { i \in ArgInWindow :
        LET t == fromisoformat(StripLast(call_args.commits[i].commit.committer.date))
        IN  /\ CalendarDay(t) - CalendarDay(ArgStart) = d
            /\ (t \div MinutesPerHour) % HoursPerDay = h }

\* C22: row d of the matrix counts the commits of the window whose calendar
\* date is d days after the calendar date of the earliest commit, column h
\* those made in hour h; commits of different calendar dates share no row.
C22_RowsAreCalendarDays ==
    (MatrixReturned /\ call_ret[1].exc = None) =>
        \A d \in 1..Len(Matrix), h \in 1..HoursPerDay :
            Matrix[d][h] = Cardinality(OnDayAndHour(d - 1, h - 1))

\* C23: with min_delta <= max_delta the end of the window lies between
\* start + min_delta weeks and start + max_delta weeks and is the latest commit
\* time whenever that lies in the band; one commit with min_delta = 0 gives
\* start = end, one row and one non-zero cell.
C23_EndInBand ==
    (MatrixReturned /\ call_args.min_delta <= call_args.max_delta) =>
        LET commit_times == CommitTimes(call_args.commits)
            start_time   == commit_times[1]
            last_time    == commit_times[Len(commit_times)]
            end_time     == EndTime(start_time, last_time,
                                    call_args.max_delta, call_args.min_delta)
        IN  /\ start_time = ArgStart
            /\ ArgLow <= end_time
            /\ end_time <= ArgHigh
            /\ (ArgLow <= ArgLatest /\ ArgLatest <= ArgHigh) => end_time = ArgLatest
            /\ Len(Matrix) = (end_time - start_time) \div MinutesPerDay + 1
            /\ (Len(call_args.commits) = 1 /\ call_args.min_delta = 0) =>
                  /\ end_time = start_time
                  /\ Len(Matrix) = 1
                  /\ Cardinality({ h \in 1..HoursPerDay : Matrix[1][h] # 0 }) = 1

\* a single commit with min_delta = 0: one row holding one commit
C23_Witness ==
    /\ MatrixReturned
    /\ Len(call_args.commits) = 1
    /\ call_args.min_delta = 0
    /\ Len(Matrix) = 1
    /\ MatrixSum = 1

(***************************************************************************)
(* Commit attribution  (scraper/main.py 88-120)                             *)
(***************************************************************************)
\* str.lower() on the characters the model uses
LowerChar(c) ==
    CASE c = "A" -> "a"
      [] c = "B" -> "b"
      [] c = "C" -> "c"
      [] c = "D" -> "d"
      [] OTHER   -> c

lower(s) == [i \in 1..Len(s) |-> LowerChar(s[i])]

\* truth value of a Python object: None, "" and empty containers are false
Truthy(x) == x # <<>>

\* common/models.py 89-91
Contributor(login, contributions) ==
    [login |-> login, contributions |-> contributions, commits_pr |-> 0]

Matches_CaseSensitiveNames(commit, contributor) ==
    LET commit_author         == commit.author
        commit_committer      == commit.committer
        commit_author_name    == commit.commit.author.name
        commit_committer_name == commit.commit.committer.name
    IN  \/ (Truthy(commit_author) /\ commit_author[1].login = contributor.login)
        \/ (Truthy(commit_author_name) /\ commit_author_name = contributor.login)
        \/ (Truthy(commit_committer) /\ commit_committer[1].login = contributor.login)
        \/ (Truthy(commit_committer_name) /\ commit_committer_name = contributor.login)

\* lines 90-116
Matches(commit, contributor) ==
    LET commit_author         == commit.author
        commit_committer      == commit.committer
        commit_author_name    == commit.commit.author.name
        commit_committer_name == commit.commit.committer.name
    IN  \/ (Truthy(commit_author) /\ commit_author[1].login = contributor.login)
        \/ (Truthy(commit_author_name)
              /\ lower(commit_author_name) = lower(contributor.login))
        \/ (Truthy(commit_committer) /\ commit_committer[1].login = contributor.login)
        \/ (Truthy(commit_committer_name)
              /\ lower(commit_committer_name) = lower(contributor.login))

\* the scan without its break: every matching contributor is credited
RECURSIVE ScanContributors_NoBreak(_, _, _)
ScanContributors_NoBreak(contributors, commit, j) ==
    IF j > Len(contributors) THEN contributors
    ELSE ScanContributors_NoBreak(
             IF Matches(commit, contributors[j])
             THEN [contributors EXCEPT ![j].commits_pr = @ + 1]
             ELSE contributors,
             commit, j + 1)

\* lines 89-120: the scan of the contributors for one commit, from the j-th on
RECURSIVE ScanContributors(_, _, _)
ScanContributors(contributors, commit, j) ==
    IF j > Len(contributors) THEN contributors
    ELSE IF Matches(commit, contributors[j])
         THEN [contributors EXCEPT ![j].commits_pr = @ + 1]
         ELSE ScanContributors(contributors, commit, j + 1)

\* lines 88-120: the loop over the commits of one pull request
RECURSIVE AttributeCommits(_, _, _)
AttributeCommits(contributors, pr_commits, i) ==
    IF i > Len(pr_commits) THEN contributors
    ELSE AttributeCommits(ScanContributors(contributors, pr_commits[i], 1),
                          pr_commits, i + 1)

(***************************************************************************)
(* SpecAttribution: the attribution pass, one PR commit at a time           *)
(***************************************************************************)
MaxContributors == 2

MaxPrCommits == 2

SampleLogins == { <<"a", "b">>, <<"C", "d">>, <<"e", "f">> }

\* author login, author name, committer login, committer name
SampleIdentities ==
    { <<Some(<<"a", "b">>), <<"A", "l">>, Some(<<"w">>), <<"G">>>>,
      <<None, <<"A", "B">>, None, <<"A", "B">>>>,
      <<Some(<<"C", "d">>), <<"x">>, Some(<<"a", "b">>), <<"y">>>>,
      <<None, <<"z">>, None, <<"z">>>>,
      <<None, <<"c", "d">>, Some(<<"e", "f">>), <<"q">>>>,
      <<Some(<<"c", "d">>), <<"x">>, None, <<>>>> }

IdentifiedCommit(id) == Commit(IsoDate(1, 10, 0), <<"m">>, id[1], id[2], id[3], id[4])

InitAttribution ==
    /\ ScrapeIdle
    /\ \E ls \in SeqsUpTo(SampleLogins, MaxContributors),
          ids \in SeqsUpTo(SampleIdentities, MaxPrCommits) :
          /\ \A a, b \in 1..Len(ls) : a # b => ls[a] # ls[b]
          /\ call_args = [contributors |-> [j \in 1..Len(ls) |-> Contributor(ls[j], 1)],
                          pr_commits   |-> [i \in 1..Len(ids) |-> IdentifiedCommit(ids[i])]]
    /\ call_ret = None

\* the contributors and the number of PR commits attributed so far
Attributed ==
    IF call_ret = None THEN [contributors |-> call_args.contributors, done |-> 0]
    ELSE call_ret[1]

\* one iteration of line 88
AttributeNextCommit ==
    /\ pc = "idle"
    /\ "pr_commits" \in DOMAIN call_args
    /\ Attributed.done < Len(call_args.pr_commits)
    /\ call_ret' = Some([contributors |->
                            ScanContributors(Attributed.contributors,
                                             call_args.pr_commits[Attributed.done + 1], 1),
                         done |-> Attributed.done + 1])
    /\ UNCHANGED <<scrapeVars, call_args>>

NextAttribution == AttributeNextCommit

SpecAttribution == InitAttribution /\ [][NextAttribution]_vars

\* the contributors matching a commit, as positions of the listing
MatchingPositions(commit, contributors) ==
    { j \in 1..Len(contributors) :
        LET login == contributors[j].login
        IN  \/ (commit.author # None /\ commit.author[1].login = login)
            \/ (commit.commit.author.name # <<>>
                  /\ lower(commit.commit.author.name) = lower(login))
            \/ (commit.committer # None /\ commit.committer[1].login = login)
            \/ (commit.commit.committer.name # <<>>
                  /\ lower(commit.commit.committer.name) = lower(login)) }

\* C4: attributing one PR commit increments commits_pr of at most one
\* contributor, by one; when some contributor matches on one of the four
\* identity fields it is the first such contributor of the listing, and no
\* later matching contributor is credited.
C4_FirstMatchOnly ==
    [][ ("pr_commits" \in DOMAIN call_args /\ call_ret' # call_ret) =>
          LET before  == Attributed.contributors
              after   == call_ret'[1].contributors
              commit  == call_args.pr_commits[call_ret'[1].done]
              matched == MatchingPositions(commit, before)
              first   == CHOOSE j \in matched : \A k \in matched : j <= k
          IN  /\ Len(after) = Len(before)
              /\ \A j \in 1..Len(before) :
                    after[j].commits_pr =
                        IF matched # {} /\ j = first THEN before[j].commits_pr + 1
                        ELSE before[j].commits_pr
              /\ Cardinality({ j \in 1..Len(before) :
                                 after[j].commits_pr # before[j].commits_pr }) <= 1
      ]_vars

\* a commit that two contributors match has been attributed: the first of
\* the listing was credited, the second was not
C4_Witness ==
    /\ "pr_commits" \in DOMAIN call_args
    /\ call_ret # None
    /\ call_ret[1].done = 1
    /\ Cardinality(MatchingPositions(call_args.pr_commits[1], call_args.contributors)) = 2
    /\ call_ret[1].contributors[1].commits_pr = 1
    /\ call_ret[1].contributors[2].commits_pr = 0

(***************************************************************************)
(* The data source and the working directory                                *)
(***************************************************************************)
\* An answer to a request: a response, or the exception requests raised.
Response(status_code, headers, body) ==
    [kind |-> "response", status_code |-> status_code, headers |-> headers, body |-> body]

Failure(exception) == [kind |-> exception]

\* requests.Timeout and requests.ConnectionError (DNS failure, connection
\* reset): the transport failures; both derive from requests.RequestException
TransportFailures == { Failure("Timeout"), Failure("ConnectionError") }

\* a URL is the tuple of the segments between its slashes
RepoUrl(owner, repo) == <<"https:", "", "github.com", owner, repo>>

\* the entry of the request log for one request
Request(method, url, page) == [method |-> method, url |-> url, page |-> page]

Exists(fs, name) == name \in DOMAIN fs

WriteFile(fs, name, content) ==
    [n \in DOMAIN fs \cup {name} |-> IF n = name THEN content ELSE fs[n]]

Unlink(fs, name) == [n \in DOMAIN fs \ {name} |-> fs[n]]

(***************************************************************************)
(* GroupInfo  (common/models.py 9-129)                                      *)
(***************************************************************************)
\* lines 12-18; the private attributes are absent until they are first set
GroupInfo(group_number, repo_url) ==
    [group_number |-> group_number, repo_url |-> repo_url]

\* lines 66-70
repo_api(self) ==
    <<"https:", "", "api.github.com", "repos",
      self.repo_url[Len(self.repo_url) - 1], self.repo_url[Len(self.repo_url)]>>

Memoized_Never(self) == FALSE

Memoized_Truthy(self) ==
    HasAttr(self, "_repo_accessible") /\ self._repo_accessible = Some(TRUE)

\* line 23
Memoized(self) ==
    HasAttr(self, "_repo_accessible") /\ self._repo_accessible # None

Caught_TimeoutOnly(exception) == exception = "Timeout"

\* line 42: except requests.RequestException
Caught(exception) == exception \in {"Timeout", "ConnectionError", "RequestException"}

\* a response that redirects: a 3xx carrying a Location header
IsRedirect(response) ==
    /\ response.kind = "response"
    /\ 300 <= response.status_code
    /\ response.status_code < 400
    /\ "Location" \in DOMAIN response.headers

\* requests.head(url, allow_redirects=...) (lines 27-29, 38-41).  `chain` is
\* what the data source answers along the redirects that start at url:
\* chain[1] is the answer at url itself, chain[2] the answer at the Location
\* of chain[1], and so on.  Without allow_redirects the answer at url is
\* returned as it is; requests.head does not follow redirects unless
\* allow_redirects=True is passed.
RECURSIVE head(_, _)
head(chain, allow_redirects) ==
    IF allow_redirects /\ Len(chain) > 1 /\ IsRedirect(Head(chain))
    THEN head(Tail(chain), allow_redirects)
    ELSE Head(chain)

\* lines 31-36: the reference after the first answer
Redirected(self, response) ==
    IF /\ 300 <= response.status_code
       /\ response.status_code < 400
       /\ "Location" \in DOMAIN response.headers
       /\ Truthy(response.headers.Location)
    THEN [self EXCEPT !.repo_url = response.headers.Location]
    ELSE self

\* lines 20-46: one evaluation of the property, the data source answering the
\* first request with r1 and the second with r2.  The result: the reference
\* afterwards, the value returned (None when an exception leaves the
\* property), that exception, the requests issued, and whether one of them
\* failed in the transport.
repo_accessible(self, r1, r2) ==
    IF Memoized(self)
    THEN [self |-> self, value |-> self._repo_accessible, exc |-> None,
          requests |-> <<>>, failed |-> FALSE]
    ELSE LET first == Request("HEAD", self.repo_url, 0)
         IN  IF r1.kind # "response"
             THEN IF Caught(r1.kind)
                  THEN [self |-> SetAttr(self, "_repo_accessible", Some(FALSE)),
                        value |-> Some(FALSE), exc |-> None,
                        requests |-> <<first>>, failed |-> TRUE]
                  ELSE [self |-> self, value |-> None, exc |-> Some(r1.kind),
                        requests |-> <<first>>, failed |-> TRUE]
             ELSE LET moved  == Redirected(self, r1)
                      second == Request("HEAD", moved.repo_url, 0)
                  IN  IF r2.kind # "response"
                      THEN IF Caught(r2.kind)
                           THEN [self |-> SetAttr(moved, "_repo_accessible", Some(FALSE)),
                                 value |-> Some(FALSE), exc |-> None,
                                 requests |-> <<first, second>>, failed |-> TRUE]
                           ELSE [self |-> moved, value |-> None, exc |-> Some(r2.kind),
                                 requests |-> <<first, second>>, failed |-> TRUE]
                      ELSE [self |-> SetAttr(moved, "_repo_accessible",
                                             Some(r2.status_code = 200)),
                            value |-> Some(r2.status_code = 200), exc |-> None,
                            requests |-> <<first, second>>, failed |-> FALSE]

\* per_page of the paged listings (lines 105, 123)
per_page == 100

\* the page size of a listing requested without per_page (scraper/main.py 82-86)
default_per_page == 30

\* what the data source returns for page `page` of a listing
Page(listing, page, size) ==
    SubSeq(listing, (page - 1) * size + 1, Min2(page * size, Len(listing)))

\* the answers a GET may receive: the payload, or a transport failure
Answers(payload) == { Response(200, <<>>, payload) } \cup TransportFailures

\* the error object the data source answers once the rate limit is reached;
\* len() of the decoded dict is its number of keys and extend() appends its
\* keys, so the object is modelled by the sequence of its keys
RateLimitBody == << "message", "documentation_url" >>

\* a repository record may carry rate_limit, the number of requests of the
\* run the data source answers before it answers the error object
RateLimited(repo, sent) == "rate_limit" \in DOMAIN repo /\ sent >= repo.rate_limit

\* requests.get(...).json() of lines 103-106 and 121-124: what the data source
\* answers for page `page` of a listing of `repo`
PagePayload(repo, listing, page) ==
    IF RateLimited(repo, Len(requests)) THEN RateLimitBody
    ELSE Page(listing, page, per_page)

PageDone_ShortPage(request) == Len(request) < per_page

\* lines 107, 125: the stopping rule of the paged listings
PageDone(request) == Len(request) = 0

(***************************************************************************)
(* scrape  (scraper/main.py 52-230)                                         *)
(***************************************************************************)
\* the fields of RepoStats (scraper/models.py 16-36)
StatFields ==
    { "num_contributors", "num_prs", "num_commits_to_main",
      "average_commit_length_to_main", "latest_commit", "average_commit_length",
      "contributions_per_contributor", "total_commits", "activity_matrix",
      "num_docker_files", "num_python_files", "num_workflow_files",
      "has_requirements_file", "has_cloudbuild", "using_dvc", "repo_size",
      "readme_length", "actions_passing", "num_warnings" }

\* The local variables of scrape are a function on the names assigned so far:
\* none when the loop is entered.
NoLocals == <<>>

\* the assignments u (name -> value) applied to the locals l
Assign(l, u) ==
    [k \in DOMAIN l \cup DOMAIN u |-> IF k \in DOMAIN u THEN u[k] ELSE l[k]]

ElseBranch_WithoutTotalCommits(l) ==
    Assign(l, [k \in StatFields \ {"total_commits"} |-> None])

\* lines 153-175
ElseBranch(l) == Assign(l, [k \in StatFields |-> None])

\* lines 177-199: group_number and group_size are no fields of RepoStats and
\* are dropped by the model class
RepoStats(l) == [k \in StatFields |-> l[k]]

\* a / b of two ints
TrueDiv(a, b) == [num |-> a, den |-> b]

Raise_EmitPartial(exception) ==
    /\ pc' = IF index <= Len(groups) /\ pc # "append" THEN "append" ELSE "raised"
    /\ exc' = IF index <= Len(groups) /\ pc # "append" THEN exc ELSE Some(exception)

\* the exception ends the run: scrape catches nothing
Raise(exception) ==
    /\ pc' = "raised"
    /\ exc' = Some(exception)

\* lines 62-64: the log line evaluates group.repo_accessible
FirstHeadAnswers(self) ==
    { Response(200, <<>>, None), Response(404, <<>>, None),
      Response(301, [Location |-> RepoUrl("moved", self.repo_url[Len(self.repo_url)])], None),
      Response(301, <<>>, None) } \cup TransportFailures

SecondHeadAnswers ==
    { Response(200, <<>>, None), Response(404, <<>>, None), Response(301, <<>>, None) }
        \cup TransportFailures

\* what the data source answers along the redirects that start at the URL of
\* the second request: a single answer, or a further redirect whose target
\* exists or does not
SecondHeadChains ==
    { <<r>> : r \in SecondHeadAnswers }
        \cup { << Response(301, [Location |-> RepoUrl("final", "repo")], None), r >> :
                  r \in { Response(200, <<>>, None), Response(404, <<>>, None) } }

\* the record of one evaluation kept in probes: its outcome, and for the
\* requests it sent the answer to the first and the chain behind the second
ProbeRecord(p, r1, c2) ==
    [value |-> p.value, exc |-> p.exc, sent |-> Len(p.requests), failed |-> p.failed,
     first |-> IF Len(p.requests) >= 1 THEN Some(r1) ELSE None,
     chain |-> IF Len(p.requests) >= 2 THEN c2 ELSE <<>>]

LogLine ==
    /\ pc = "log"
    /\ \E r1 \in FirstHeadAnswers(groups[index]), c2 \in SecondHeadChains :
          LET p == repo_accessible(groups[index], head(<<r1>>, FALSE), head(c2, FALSE))
          IN  /\ groups' = [groups EXCEPT ![index] = p.self]
              /\ requests' = requests \o p.requests
              /\ probes' = Append(probes, ProbeRecord(p, r1, c2))
              /\ IF p.exc # None THEN Raise(p.exc[1])
                 ELSE pc' = "branch" /\ exc' = exc
    /\ UNCHANGED <<github, index, locals, repo_stats, files, page_counter, callVars>>

\* line 65
Branch ==
    /\ pc = "branch"
    /\ \E r1 \in FirstHeadAnswers(groups[index]), c2 \in SecondHeadChains :
          LET p == repo_accessible(groups[index], head(<<r1>>, FALSE), head(c2, FALSE))
          IN  /\ groups' = [groups EXCEPT ![index] = p.self]
              /\ requests' = requests \o p.requests
              /\ probes' = Append(probes, ProbeRecord(p, r1, c2))
              /\ IF p.exc # None THEN Raise(p.exc[1])
                 ELSE /\ pc' = IF p.value[1] THEN "contributors" ELSE "else"
                      /\ exc' = exc
    /\ UNCHANGED <<github, index, locals, repo_stats, files, page_counter, callVars>>

\* lines 153-175
Else ==
    /\ pc = "else"
    /\ locals' = ElseBranch(locals)
    /\ pc' = "append"
    /\ UNCHANGED <<groups, github, index, repo_stats, files, requests, probes,
                   page_counter, exc, callVars>>

\* lines 177-200 and the loop's step; reading a local that was never assigned
\* is an UnboundLocalError
AppendRecord ==
    /\ pc = "append"
    /\ IF \E k \in StatFields : k \notin DOMAIN locals
       THEN /\ Raise("UnboundLocalError")
            /\ UNCHANGED <<repo_stats, index, requests, probes>>
       ELSE /\ repo_stats' = Append(repo_stats, RepoStats(locals))
            /\ index' = index + 1
            /\ requests' = <<>>
            /\ probes' = <<>>
            /\ pc' = IF index + 1 > Len(groups) THEN "write" ELSE "log"
            /\ exc' = exc
    /\ UNCHANGED <<groups, github, locals, files, page_counter, callVars>>

\* line 204: filename = f"repo_stats_{now}.json"
filename == "repo_stats_<now>.json"

\* lines 202-212
WriteStats ==
    /\ pc = "write"
    /\ files' = WriteFile(WriteFile(files, "repo_stats.json", repo_stats),
                          filename, repo_stats)
    /\ pc' = "hub"
    /\ UNCHANGED <<groups, github, index, locals, repo_stats, requests, probes,
                   page_counter, exc, callVars>>

\* lines 214-225: the upload may fail in the transport
PushToHub ==
    /\ pc = "hub"
    /\ \/ /\ call_args.push_to_hub
          /\ \E ok \in BOOLEAN :
                IF ok THEN pc' = "cleanup" /\ exc' = exc
                ELSE Raise("ConnectionError")
       \/ /\ ~call_args.push_to_hub
          /\ pc' = "cleanup"
          /\ exc' = exc
    /\ UNCHANGED <<groups, github, index, locals, repo_stats, files, requests, probes,
                   page_counter, callVars>>

UnlinkAll_FirstOnly(fs, names) ==
    IF ~Exists(fs, Head(names)) THEN [fs |-> fs, exc |-> Some("FileNotFoundError")]
    ELSE [fs |-> Unlink(fs, Head(names)), exc |-> None]

\* Path(name).unlink() of each name in turn: [fs, exc]; a missing file is a
\* FileNotFoundError and the later names are not reached
RECURSIVE UnlinkAll(_, _)
UnlinkAll(fs, names) ==
    IF names = <<>> THEN [fs |-> fs, exc |-> None]
    ELSE IF ~Exists(fs, Head(names)) THEN [fs |-> fs, exc |-> Some("FileNotFoundError")]
    ELSE UnlinkAll(Unlink(fs, Head(names)), Tail(names))

\* lines 227-230
Cleanup ==
    /\ pc = "cleanup"
    /\ LET r == UnlinkAll(files, <<"README.md", "report.py", filename>>)
       IN  /\ files' = r.fs
           /\ IF r.exc # None THEN Raise(r.exc[1])
              ELSE pc' = "done" /\ exc' = exc
    /\ UNCHANGED <<groups, github, index, locals, repo_stats, requests, probes,
                   page_counter, callVars>>

\* --- the accessible path, lines 66-152 ---

\* the repository the data source holds for the current group, and its API root
Repo == github[index]

Api == repo_api(groups[index])

\* a GET of `url` was issued and answered by `a`
Sent(url, page) == requests' = Append(requests, Request("GET", url, page))

\* lines 66-67 and GroupInfo.contributors (common/models.py 82-93)
Contributors ==
    /\ pc = "contributors"
    /\ Sent(Api \o <<"contributors">>, 0)
    /\ \E a \in Answers(Repo.contributors) :
          IF a.kind # "response"
          THEN Raise(a.kind) /\ UNCHANGED <<locals, page_counter>>
          ELSE /\ locals' = Assign(locals,
                      [contributors     |-> [j \in 1..Len(a.body) |->
                                               Contributor(a.body[j].login,
                                                           a.body[j].contributions)],
                       num_contributors |-> Some(Len(a.body)),
                       prs              |-> <<>>])
               /\ page_counter' = 1
               /\ pc' = "prs"
               /\ exc' = exc
    /\ UNCHANGED <<groups, github, index, repo_stats, files, probes, callVars>>

\* one turn of the loop of GroupInfo.prs (common/models.py 95-111); on the
\* break, lines 69-70 and the start of GroupInfo.commits
PrsPage ==
    /\ pc = "prs"
    /\ Sent(Api \o <<"pulls">>, page_counter)
    /\ \E a \in Answers(PagePayload(Repo, Repo.prs, page_counter)) :
          IF a.kind # "response"
          THEN Raise(a.kind) /\ UNCHANGED <<locals, page_counter>>
          ELSE IF PageDone(a.body)
               THEN /\ locals' = Assign(locals, [num_prs  |-> Some(Len(locals.prs)),
                                                 commits  |-> <<>>])
                    /\ page_counter' = 1
                    /\ pc' = "commits"
                    /\ exc' = exc
               ELSE /\ page_counter' = page_counter + 1
                    /\ locals' = Assign(locals, [prs |-> locals.prs \o a.body])
                    /\ UNCHANGED <<pc, exc>>
    /\ UNCHANGED <<groups, github, index, repo_stats, files, probes, callVars>>

\* one turn of the loop of GroupInfo.commits (common/models.py 113-129)
CommitsPage ==
    /\ pc = "commits"
    /\ Sent(Api \o <<"commits">>, page_counter)
    /\ \E a \in Answers(PagePayload(Repo, Repo.commits, page_counter)) :
          IF a.kind # "response"
          THEN Raise(a.kind) /\ UNCHANGED <<locals, page_counter>>
          ELSE IF PageDone(a.body)
               THEN /\ pc' = "stats"
                    /\ UNCHANGED <<locals, page_counter, exc>>
               ELSE /\ page_counter' = page_counter + 1
                    /\ locals' = Assign(locals, [commits |-> locals.commits \o a.body])
                    /\ UNCHANGED <<pc, exc>>
    /\ UNCHANGED <<groups, github, index, repo_stats, files, probes, callVars>>

\* [len(c) for c in commit_messages]
MessageLengths(commit_messages) ==
    [i \in 1..Len(commit_messages) |-> Len(commit_messages[i])]

\* [c["commit"]["message"] for c in commits]
Messages(commits) == [i \in 1..Len(commits) |-> commits[i].commit.message]

MergedPrs_All(prs) == [i \in 1..Len(prs) |-> prs[i].number]

\* line 80
MergedPrs(prs) ==
    LET keep == SelectSeq(prs, LAMBDA p : p.merged_at # None)
    IN  [i \in 1..Len(keep) |-> keep[i].number]

\* lines 73-80
CommitStats ==
    /\ pc = "stats"
    /\ LET commits         == locals.commits
           commit_messages == Messages(commits)
       IN  IF Len(commit_messages) = 0
           THEN Raise("ZeroDivisionError") /\ UNCHANGED locals
           ELSE /\ locals' = Assign(locals,
                      [num_commits_to_main |-> Some(Len(commits)),
                       commit_messages     |-> commit_messages,
                       average_commit_length_to_main |->
                           Some(TrueDiv(SumSeq(MessageLengths(commit_messages)),
                                        Len(commit_messages))),
                       latest_commit       |-> Some(commits[1].commit.author.date),
                       merged_prs          |-> MergedPrs(locals.prs),
                       pr_index            |-> 1])
                /\ pc' = "pr_commits"
                /\ exc' = exc
    /\ UNCHANGED <<groups, github, index, repo_stats, files, requests, probes,
                   page_counter, callVars>>

\* lines 81-121: one turn of the loop over the merged pull requests
PrCommits ==
    /\ pc = "pr_commits"
    /\ locals.pr_index <= Len(locals.merged_prs)
    /\ LET pr_num == locals.merged_prs[locals.pr_index]
       IN  /\ Sent(Api \o <<"pulls", pr_num, "commits">>, 0)
           /\ \E a \in Answers(Page(Repo.pr_commits[pr_num], 1, default_per_page)) :
                 IF a.kind # "response"
                 THEN Raise(a.kind) /\ UNCHANGED locals
                 ELSE /\ locals' = Assign(locals,
                            [commit_messages |-> locals.commit_messages \o Messages(a.body),
                             contributors    |-> AttributeCommits(locals.contributors,
                                                                  a.body, 1),
                             commits         |-> locals.commits \o a.body,
                             pr_index        |-> locals.pr_index + 1])
                      /\ UNCHANGED <<pc, exc>>
    /\ UNCHANGED <<groups, github, index, repo_stats, files, probes, page_counter,
                   callVars>>

\* Contributor.total_commits
total_commits(contributor) == contributor.contributions + contributor.commits_pr

\* lines 123-130, once the loop over the merged pull requests has ended
ActivityAndTotals ==
    /\ pc = "pr_commits"
    /\ locals.pr_index > Len(locals.merged_prs)
    /\ LET m == create_activity_matrix(locals.commits, 3, 1)
           contributions_per_contributor ==
               [j \in 1..Len(locals.contributors) |-> total_commits(locals.contributors[j])]
       IN  IF m.exc # None
           THEN Raise(m.exc[1]) /\ UNCHANGED locals
           ELSE /\ locals' = Assign(locals,
                      [activity_matrix       |-> Some(m.value),
                       average_commit_length |->
                           Some(TrueDiv(SumSeq(MessageLengths(locals.commit_messages)),
                                        Len(locals.commit_messages))),
                       contributions_per_contributor |-> Some(contributions_per_contributor),
                       total_commits         |-> Some(SumSeq(contributions_per_contributor))])
                /\ pc' = "default_branch"
                /\ exc' = exc
    /\ UNCHANGED <<groups, github, index, repo_stats, files, requests, probes,
                   page_counter, callVars>>

(***************************************************************************)
(* RepoContent and Report  (scraper/models.py 43-204)                       *)
(***************************************************************************)
\* A path is the tuple of its parts, e.g. <<"src/", "train", ".py">>; the
\* parts are chosen so that `"x" in path` is: x is one of the parts.
Contains(path, part) == \E i \in 1..Len(path) : path[i] = part

\* os.path.basename: the parts after the last directory part
IsDir(part) == part \in {"src/", ".github/workflows/", ".dvc/", "dockerfiles/"}

basename(path) == SelectSeq(path, LAMBDA part : ~IsDir(part))

\* GroupInfo.default_branch (common/models.py 72-80) answered by `a`
default_branch(self, a, api) ==
    IF HasAttr(self, "_default_branch")
    THEN [self |-> self, value |-> Some(self._default_branch), exc |-> None,
          requests |-> <<>>]
    ELSE IF a.kind # "response"
         THEN [self |-> self, value |-> None, exc |-> Some(a.kind),
               requests |-> <<Request("GET", api, 0)>>]
         ELSE [self |-> SetAttr(self, "_default_branch", a.body.default_branch),
               value |-> Some(a.body.default_branch), exc |-> None,
               requests |-> <<Request("GET", api, 0)>>]

file_tree_NoCache(self, a1, a2) ==
    LET branch_url == self.repo_api \o <<"git", "refs", "heads", self.default_branch>>
    IN  IF a1.kind # "response"
        THEN [self |-> self, value |-> <<>>, exc |-> Some(a1.kind),
              requests |-> <<Request("GET", branch_url, 0)>>]
        ELSE LET tree_url == self.repo_api \o <<"git", "trees", a1.body.object.sha, "?recursive=1">>
                 both     == <<Request("GET", branch_url, 0), Request("GET", tree_url, 0)>>
             IN  IF a2.kind # "response"
                 THEN [self |-> self, value |-> <<>>, exc |-> Some(a2.kind), requests |-> both]
                 ELSE [self |-> SetAttr(self, "_file_tree", a2.body.tree),
                       value |-> a2.body.tree, exc |-> None, requests |-> both]

\* RepoContent.file_tree (scraper/models.py 106-117), the branch ref answered
\* by a1 and the tree by a2
file_tree(self, a1, a2) ==
    IF HasAttr(self, "_file_tree")
    THEN [self |-> self, value |-> self._file_tree, exc |-> None, requests |-> <<>>]
    ELSE LET branch_url ==
                 self.repo_api \o <<"git", "refs", "heads", self.default_branch>>
         IN  IF a1.kind # "response"
             THEN [self |-> self, value |-> <<>>, exc |-> Some(a1.kind),
                   requests |-> <<Request("GET", branch_url, 0)>>]
             ELSE LET tree_sha == a1.body.object.sha
                      tree_url == self.repo_api \o <<"git", "trees", tree_sha, "?recursive=1">>
                      both     == <<Request("GET", branch_url, 0), Request("GET", tree_url, 0)>>
                  IN  IF a2.kind # "response"
                      THEN [self |-> self, value |-> <<>>, exc |-> Some(a2.kind),
                            requests |-> both]
                      ELSE [self |-> SetAttr(self, "_file_tree", a2.body.tree),
                            value |-> a2.body.tree, exc |-> None, requests |-> both]

Count(tree, Test(_)) == Len(SelectSeq(tree, Test))

\* lines 119-128
num_docker_files(tree) ==
    Count(tree, LAMBDA f : Contains(f.path, "Dockerfile") \/ Contains(f.path, ".dockerfile"))

\* lines 130-133
num_python_files(tree) == Count(tree, LAMBDA f : Contains(f.path, ".py"))

\* lines 135-145
num_workflow_files(tree) ==
    Count(tree, LAMBDA f : /\ f.path[1] = ".github/workflows/"
                           /\ f.path[Len(f.path)] \in {".yml", ".yaml"})

\* lines 147-150
has_requirements_file(tree) ==
    \E i \in 1..Len(tree) : Contains(tree[i].path, "requirements.txt")

\* lines 152-157
has_cloudbuild(tree) ==
    \E i \in 1..Len(tree) : basename(tree[i].path) = <<"cloudbuild.yaml">>

\* lines 159-162
using_dvc(tree) == \E i \in 1..Len(tree) : Contains(tree[i].path, ".dvc")

Sized_All(tree) == tree

\* line 167: [f for f in self.file_tree if "size" in f]
Sized(tree) == SelectSeq(tree, LAMBDA f : "size" \in DOMAIN f)

\* lines 164-168: [exc, value]; f["size"] of an entry without the key is a
\* KeyError
repo_size(tree) ==
    LET sized == Sized(tree)
    IN  IF \E i \in 1..Len(sized) : "size" \notin DOMAIN sized[i]
        THEN [exc |-> Some("KeyError"), value |-> None]
        ELSE [exc   |-> None,
              value |-> Some(TrueDiv(SumSeq([i \in 1..Len(sized) |-> sized[i].size]),
                                     1024 * 1024))]

\* the file-tree properties in the order scrape reads them (lines 137-143)
TreeProperty(name, tree) ==
    CASE name = "num_docker_files"      -> [exc |-> None, value |-> Some(num_docker_files(tree))]
      [] name = "num_python_files"      -> [exc |-> None, value |-> Some(num_python_files(tree))]
      [] name = "num_workflow_files"    -> [exc |-> None, value |-> Some(num_workflow_files(tree))]
      [] name = "has_requirements_file" -> [exc |-> None, value |-> Some(has_requirements_file(tree))]
      [] name = "has_cloudbuild"        -> [exc |-> None, value |-> Some(has_cloudbuild(tree))]
      [] name = "using_dvc"             -> [exc |-> None, value |-> Some(using_dvc(tree))]
      [] name = "repo_size"             -> repo_size(tree)

TreeProperties ==
    << "num_docker_files", "num_python_files", "num_workflow_files",
       "has_requirements_file", "has_cloudbuild", "using_dvc", "repo_size" >>

\* Reads the properties `names` of `self` in turn: each read goes through
\* file_tree.  [self, values (name -> value), exc, requests]
RECURSIVE ReadTreeProperties(_, _, _, _, _)
ReadTreeProperties(self, names, a1, a2, acc) ==
    IF names = <<>> THEN acc
    ELSE LET t == file_tree(self, a1, a2)
             v == TreeProperty(Head(names), t.value)
         IN  IF t.exc # None
             THEN [acc EXCEPT !.exc = t.exc, !.requests = @ \o t.requests]
             ELSE IF v.exc # None
             THEN [acc EXCEPT !.self = t.self, !.exc = v.exc, !.requests = @ \o t.requests]
             ELSE ReadTreeProperties(t.self, Tail(names), a1, a2,
                      [self     |-> t.self,
                       values   |-> Assign(acc.values, Head(names) :> v.value),
                       exc      |-> None,
                       requests |-> acc.requests \o t.requests])

\* lines 170-180: README length in words, 0 without a README
readme_length(body) == IF "content" \in DOMAIN body THEN Len(body.content) ELSE 0

RECURSIVE AllPassing_AnySha(_, _)
AllPassing_AnySha(workflow_runs, latest_commit) ==
    IF workflow_runs = <<>> THEN TRUE
    ELSE LET w_run == Head(workflow_runs)
         IN  IF w_run.status # "completed" \/ w_run.conclusion # Some("success")
             THEN FALSE
             ELSE AllPassing_AnySha(Tail(workflow_runs), latest_commit)

\* lines 197-204; the conclusion of a run that has not completed is None
RECURSIVE AllPassing(_, _)
AllPassing(workflow_runs, latest_commit) ==
    IF workflow_runs = <<>> THEN TRUE
    ELSE LET w_run == Head(workflow_runs)
         IN  IF /\ w_run.head_sha = latest_commit
                /\ (w_run.status # "completed" \/ w_run.conclusion # Some("success"))
             THEN FALSE
             ELSE AllPassing(Tail(workflow_runs), latest_commit)

\* lines 132-136: RepoContent(..., default_branch=group.default_branch)
DefaultBranch ==
    /\ pc = "default_branch"
    /\ \E a \in Answers([default_branch |-> Repo.default_branch]) :
          LET b == default_branch(groups[index], a, Api)
          IN  /\ requests' = requests \o b.requests
              /\ IF b.exc # None
                 THEN Raise(b.exc[1]) /\ UNCHANGED <<groups, locals>>
                 ELSE /\ groups' = [groups EXCEPT ![index] = b.self]
                      /\ locals' = Assign(locals,
                             [repo_content |-> [repo_api       |-> Api,
                                                default_branch |-> b.value[1]]])
                      /\ pc' = "content"
                      /\ exc' = exc
    /\ UNCHANGED <<github, index, repo_stats, files, probes, page_counter, callVars>>

\* lines 137-143: the seven properties computed from the file tree
ContentProperties ==
    /\ pc = "content"
    /\ \E a1 \in Answers([object |-> [sha |-> Repo.head_sha]]),
          a2 \in Answers([tree |-> Repo.tree]) :
          LET r == ReadTreeProperties(locals.repo_content, TreeProperties, a1, a2,
                       [self |-> locals.repo_content, values |-> <<>>, exc |-> None,
                        requests |-> <<>>])
          IN  /\ requests' = requests \o r.requests
              /\ IF r.exc # None
                 THEN Raise(r.exc[1]) /\ UNCHANGED locals
                 ELSE /\ locals' = Assign(Assign(locals, r.values),
                                          [repo_content |-> r.self])
                      /\ pc' = "readme"
                      /\ exc' = exc
    /\ UNCHANGED <<groups, github, index, repo_stats, files, probes, page_counter,
                   callVars>>

\* line 144 and RepoContent.readme_length (scraper/models.py 170-180)
ReadmeLength ==
    /\ pc = "readme"
    /\ Sent(locals.repo_content.repo_api \o <<"readme">>, 0)
    /\ \E a \in Answers(Repo.readme) :
          IF a.kind # "response"
          THEN Raise(a.kind) /\ UNCHANGED locals
          ELSE /\ locals' = Assign(locals, [readme_length |-> Some(readme_length(a.body))])
               /\ pc' = "actions"
               /\ exc' = exc
    /\ UNCHANGED <<groups, github, index, repo_stats, files, probes, page_counter,
                   callVars>>

\* line 145 and RepoContent.actions_passing (scraper/models.py 182-204)
ActionsPassing ==
    /\ pc = "actions"
    /\ LET self         == locals.repo_content
           commit_url   == self.repo_api \o <<"commits", self.default_branch>>
           workflow_url == self.repo_api \o <<"actions", "runs", self.default_branch, "push">>
       IN  \E a1 \in Answers([sha |-> Repo.head_sha]),
              a2 \in Answers([workflow_runs |-> Repo.workflow_runs]) :
              IF a1.kind # "response"
              THEN /\ requests' = Append(requests, Request("GET", commit_url, 0))
                   /\ Raise(a1.kind) /\ UNCHANGED locals
              ELSE /\ requests' = requests \o <<Request("GET", commit_url, 0),
                                                Request("GET", workflow_url, 0)>>
                   /\ IF a2.kind # "response"
                      THEN Raise(a2.kind) /\ UNCHANGED locals
                      ELSE /\ locals' = Assign(locals,
                                  [actions_passing |->
                                       Some(AllPassing(a2.body.workflow_runs, a1.body.sha))])
                           /\ pc' = "report"
                           /\ exc' = exc
    /\ UNCHANGED <<groups, github, index, repo_stats, files, probes, page_counter,
                   callVars>>

\* the URL of the checker script (scraper/models.py 53)
checker_url ==
    <<"https:", "", "api.github.com", "repos", "SkafteNicki", "dtu_mlops",
      "contents", "reports", "report.py">>

\* what the contents API answers for a file that is missing
NotFound == [message |-> "Not Found", status |-> "404"]

\* Report.download_checker (scraper/models.py 50-59): [fs, exc, requests]
download_checker(fs, a) ==
    IF Exists(fs, "report.py")
    THEN [fs |-> fs, exc |-> None, requests |-> <<>>]
    ELSE LET sent == <<Request("GET", checker_url, 0)>>
         IN  IF a.kind # "response"
             THEN [fs |-> fs, exc |-> Some(a.kind), requests |-> sent]
             ELSE IF a.status_code = 200
             THEN [fs |-> WriteFile(fs, "report.py", a.body.content), exc |-> None,
                   requests |-> sent]
             ELSE [fs |-> fs, exc |-> None, requests |-> sent]

\* Report.download_report (scraper/models.py 61-76): [self, fs, exc, requests]
download_report(self, fs, a) ==
    IF self.file_written
    THEN [self |-> self, fs |-> fs, exc |-> None, requests |-> <<>>]
    ELSE LET sent == <<Request("GET", self.repo_api \o <<"contents", "reports", "README.md">>, 0)>>
         IN  IF a.kind # "response"
             THEN [self |-> self, fs |-> fs, exc |-> Some(a.kind), requests |-> sent]
             ELSE LET response == a.body
                      message  == IF "message" \in DOMAIN response
                                  THEN Some(response.message) ELSE None
                      status   == IF "status" \in DOMAIN response
                                  THEN Some(response.status) ELSE None
                  IN  IF message # Some("Not Found") /\ status # Some("404")
                      THEN IF "content" \notin DOMAIN response
                           THEN [self |-> self, fs |-> fs, exc |-> Some("KeyError"),
                                 requests |-> sent]
                           ELSE [self |-> [self EXCEPT !.file_written = TRUE],
                                 fs   |-> WriteFile(fs, "output/README.md", response.content),
                                 exc  |-> None, requests |-> sent]
                      ELSE [self |-> [self EXCEPT !.file_written = FALSE], fs |-> fs,
                            exc |-> None, requests |-> sent]

\* Report.check_answers (scraper/models.py 78-97); `warnings` is the number of
\* lines holding WARNING that `python report.py check` writes to stderr
check_answers(self, fs, a1, a2, warnings) ==
    LET c == download_checker(fs, a1)
    IN  IF c.exc # None
        THEN [self |-> self, fs |-> c.fs, exc |-> c.exc, value |-> None,
              requests |-> c.requests]
        ELSE LET r == download_report(self, c.fs, a2)
             IN  [self     |-> r.self,
                  fs       |-> r.fs,
                  exc      |-> r.exc,
                  value    |-> IF r.exc = None /\ r.self.file_written
                               THEN Some(warnings) ELSE None,
                  requests |-> c.requests \o r.requests]

\* the lines holding WARNING the checker can write: none when report.py is not
\* there to run (the interpreter's error message holds no WARNING)
WarningCounts(fs) == IF Exists(fs, "report.py") THEN {0, 2} ELSE {0}

\* lines 147-152
ReportWarnings ==
    /\ pc = "report"
    /\ \E a1 \in Answers([content |-> "checker"])
                    \cup {Response(404, <<>>, NotFound)},
          a2 \in Answers(Repo.report) :
          LET self == [repo_api       |-> Api,
                       default_branch |-> groups[index]._default_branch,
                       file_written   |-> FALSE]
          IN  \E warnings \in WarningCounts(download_checker(files, a1).fs) :
                LET r == check_answers(self, files, a1, a2, warnings)
                IN  /\ requests' = requests \o r.requests
                    /\ files' = r.fs
                    /\ IF r.exc # None
                       THEN Raise(r.exc[1]) /\ UNCHANGED locals
                       ELSE /\ locals' = Assign(locals, [report       |-> r.self,
                                                         num_warnings |-> r.value])
                            /\ pc' = "append"
                            /\ exc' = exc
    /\ UNCHANGED <<groups, github, index, repo_stats, probes, page_counter, callVars>>

(***************************************************************************)
(* Spec: a run of scrape over a bounded batch of groups                     *)
(***************************************************************************)
MaxGroups == 2

\* a repository with two contributors, a merged and an open pull request,
\* two commits on the default branch and one commit in the merged pull request
RepoFull ==
    [contributors   |-> << [login |-> <<"a", "b">>, contributions |-> 5],
                           [login |-> <<"C", "d">>, contributions |-> 3] >>,
     prs            |-> << [number |-> 1, merged_at |-> Some(IsoDate(3, 12, 0))],
                           [number |-> 2, merged_at |-> None] >>,
     commits        |-> << Commit(IsoDate(3, 23, 0), <<"f", "i", "x">>,
                                  Some(<<"a", "b">>), <<"A", "l">>, Some(<<"w">>), <<"G">>),
                           Commit(IsoDate(1, 10, 0), <<"i", "n", "i", "t">>,
                                  None, <<"c", "d">>, None, <<"c", "d">>) >>,
     pr_commits     |-> << << Commit(IsoDate(2, 9, 0), <<"p", "r">>,
                                     Some(<<"C", "d">>), <<"x">>, Some(<<"a", "b">>), <<"y">>) >>,
                           << >> >>,
     default_branch |-> "main",
     head_sha       |-> "sha1",
     tree           |-> << [path |-> <<"Dockerfile">>, size |-> 300],
                           [path |-> <<"src/">>],
                           [path |-> <<"src/", "train", ".py">>, size |-> 2048] >>,
     readme         |-> [content |-> <<"hello", "world">>],
     workflow_runs  |-> << [head_sha |-> "sha1", status |-> "completed",
                            conclusion |-> Some("success")] >>,
     report         |-> [content |-> <<"answers">>]]

\* a repository that exists and holds nothing
RepoEmpty ==
    [contributors   |-> << >>,
     prs            |-> << >>,
     commits        |-> << >>,
     pr_commits     |-> << >>,
     default_branch |-> "main",
     head_sha       |-> "sha0",
     tree           |-> << >>,
     readme         |-> NotFound,
     workflow_runs  |-> << >>,
     report         |-> NotFound]

SampleRepos == { RepoFull, RepoEmpty }

\* the files the working directory may hold before the run
InitialFiles ==
    { [n \in S |-> "text"] : S \in SUBSET {"README.md", "report.py"} }

Init ==
    /\ \E n \in 0..MaxGroups :
          /\ groups = [i \in 1..n |-> GroupInfo(i, RepoUrl("org", i))]
          /\ github \in [1..n -> SampleRepos]
          /\ pc = IF n = 0 THEN "write" ELSE "log"
    /\ index = 1
    /\ locals = NoLocals
    /\ repo_stats = <<>>
    /\ files \in InitialFiles
    /\ requests = <<>>
    /\ probes = <<>>
    /\ page_counter = 0
    /\ exc = None
    /\ call_args \in [push_to_hub : BOOLEAN]
    /\ call_ret = None

Next ==
    \/ LogLine
    \/ Branch
    \/ Contributors
    \/ PrsPage
    \/ CommitsPage
    \/ CommitStats
    \/ PrCommits
    \/ ActivityAndTotals
    \/ DefaultBranch
    \/ ContentProperties
    \/ ReadmeLength
    \/ ActionsPassing
    \/ ReportWarnings
    \/ Else
    \/ AppendRecord
    \/ WriteStats
    \/ PushToHub
    \/ Cleanup

Spec == Init /\ [][Next]_vars

\* the probe of group i ended with this value
Probed(i, value) ==
    HasAttr(groups[i], "_repo_accessible") /\ groups[i]._repo_accessible = Some(value)

AllNone(repo_stat) == \A k \in StatFields : repo_stat[k] = None

\* C1: the record appended for a group whose probe yielded inaccessible has
\* every field None; none of its fields is populated.
C1_InaccessibleAllNone ==
    \A i \in 1..Len(repo_stats) : Probed(i, FALSE) => AllNone(repo_stats[i])

\* an accessible group with a populated record, followed by an inaccessible
\* group with its record
C1_Witness ==
    /\ Len(repo_stats) = 2
    /\ Probed(1, TRUE)
    /\ \A k \in StatFields \ {"num_warnings"} : repo_stats[1][k] # None
    /\ Probed(2, FALSE)
    /\ AllNone(repo_stats[2])

\* every group of the batch was probed and found inaccessible
NoneAccessible ==
    /\ Len(groups) >= 1
    /\ Len(repo_stats) = Len(groups)
    /\ \A i \in 1..Len(groups) : Probed(i, FALSE)

\* C8: a run over a non-empty batch with no accessible repository emits one
\* all-null record per group and does not raise, its final write and local
\* clean-up included.
C8_AllInaccessibleCompletes ==
    NoneAccessible =>
        /\ \A i \in 1..Len(repo_stats) : AllNone(repo_stats[i])
        /\ ~(pc = "raised" /\ exc = Some("FileNotFoundError"))

\* C9: a transport failure of either request of the probe is caught inside
\* it: the evaluation returns False, no exception leaves the property, and
\* the reference records the repository as inaccessible.
C9_TransportFailureCaught ==
    \A k \in 1..Len(probes) :
        probes[k].failed =>
            /\ probes[k].value = Some(FALSE)
            /\ probes[k].exc = None
            /\ Probed(index, FALSE)

\* the second request of the probe failed in the transport and the run went
\* on to the inaccessible branch
C9_Witness ==
    /\ pc = "else"
    /\ probes[1].failed
    /\ probes[1].sent = 2
    /\ probes[2].value = Some(FALSE)

\* the HEAD requests in the log of the current group
HeadRequests == SelectSeq(requests, LAMBDA r : r.method = "HEAD")

\* C10: after the first evaluation of repo_accessible on a reference, every
\* later evaluation returns the same boolean and issues no request.
C10_Memoized ==
    /\ \A k \in 2..Len(probes) :
          /\ probes[k].value = probes[1].value
          /\ probes[k].sent = 0
    /\ Len(probes) >= 1 => Len(HeadRequests) = probes[1].sent

\* the property was evaluated twice on a reference whose first evaluation
\* ended False through a caught transport failure
C10_Witness ==
    /\ Len(probes) = 2
    /\ probes[1].failed
    /\ probes[1].value = Some(FALSE)
    /\ probes[2].value = Some(FALSE)
    /\ probes[2].sent = 0

\* C11: the first request of the probe does not follow redirects; a 3xx
\* answer with a Location moves repo_url there, and the second request follows
\* redirects: when the new location itself redirects to a page answering 200
\* the repository is reported accessible.
C11_SecondRequestFollows ==
    \A k \in 1..Len(probes) :
        ( /\ probes[k].first # None
          /\ IsRedirect(probes[k].first[1])
          /\ Len(probes[k].chain) = 2
          /\ IsRedirect(probes[k].chain[1])
          /\ probes[k].chain[2].status_code = 200 )
        => /\ groups[index].repo_url = probes[k].first[1].headers.Location
           /\ probes[k].value = Some(TRUE)

\* the run was ended by a transport failure of a fetch made while the
\* accessible repository at `index` was being aggregated
FetchFailed ==
    /\ pc = "raised"
    /\ exc \in {Some("Timeout"), Some("ConnectionError")}
    /\ index <= Len(groups)
    /\ Probed(index, TRUE)

\* C12: a transport failure of a fetch other than the probe aborts only the
\* aggregation of the repository it was made for: the records of the other
\* repositories of the batch are still emitted by the run.
C12_OnlyOneRepositoryAborted ==
    FetchFailed =>
        /\ Exists(files, "repo_stats.json")
        /\ Len(files["repo_stats.json"]) = Len(groups) - 1

\* the record holds every pipeline output (the warning count is None when the
\* repository has no report)
Complete(repo_stat) == \A k \in StatFields \ {"num_warnings"} : repo_stat[k] # None

\* C13: no record is appended or written for a repository whose accessible
\* path raised, and every record appended for an accessible repository holds
\* all the pipeline outputs.
C13_NoPartialRecord ==
    /\ Len(repo_stats) = index - 1
    /\ \A i \in 1..Len(repo_stats) : Probed(i, TRUE) => Complete(repo_stats[i])
    /\ \A f \in {"repo_stats.json", filename} : Exists(files, f) => files[f] = repo_stats

\* the first repository was recorded in full and the aggregation of the
\* second raised after its listings had been fetched
C13_Witness ==
    /\ pc = "raised"
    /\ Len(groups) = 2
    /\ index = 2
    /\ Len(repo_stats) = 1
    /\ Probed(1, TRUE)
    /\ Complete(repo_stats[1])
    /\ Probed(2, TRUE)
    /\ Len(requests) > 6

\* C14: aggregating an accessible repository whose commit listing is empty
\* raises no division-by-zero or empty-sequence error.
C14_EmptyCommitsGuarded ==
    (index <= Len(groups) /\ Probed(index, TRUE) /\ github[index].commits = <<>>)
        => exc \notin {Some("ZeroDivisionError"), Some("IndexError")}

\* C15: check_answers gives None whenever the checker script could not be
\* obtained; an integer count is returned only when checker and report were
\* both obtained.
C15_CheckerFailureGivesNone ==
    (pc = "append" /\ Probed(index, TRUE) /\ ~Exists(files, "report.py"))
        => locals.num_warnings = None

\* the position in the request log of the last request of the k-th evaluation
\* of the probe
LastSentBy(k) == SumSeq([j \in 1..k |-> probes[j].sent])

\* C16: after a request for a repository failed the same request is not
\* issued again for it, and the repository gets no populated record: a failed
\* probe leaves the all-None record, a failed fetch ends the run with no
\* record for the repository and no further step.
C16_NoRetry ==
    /\ [](/\ \A k \in 1..Len(probes) :
                probes[k].failed =>
                    \A j \in (LastSentBy(k) + 1)..Len(requests) :
                        requests[j] # requests[LastSentBy(k)]
          /\ (pc = "append" /\ Len(probes) >= 1 /\ probes[1].failed)
                => AllNone(RepoStats(locals))
          /\ (pc = "raised" /\ index <= Len(groups)) => Len(repo_stats) = index - 1)
    /\ [][pc # "raised"]_vars

\* a fetch of the second repository failed after earlier requests for it had
\* been answered
C16_Witness ==
    /\ FetchFailed
    /\ index = 2
    /\ exc = Some("Timeout")
    /\ Len(requests) = 4

\* record i belongs to group i: it is the all-None record exactly when group i
\* was found inaccessible, and holds group i's contributor count otherwise
RosterOrder ==
    /\ Len(repo_stats) = Len(groups)
    /\ \A i \in 1..Len(groups) :
          /\ Probed(i, FALSE) <=> AllNone(repo_stats[i])
          /\ Probed(i, TRUE) =>
                repo_stats[i].num_contributors = Some(Len(github[i].contributors))

\* C18 as stated: after a completed run the list of records is held by both
\* the dated snapshot file and repo_stats.json, both present.
C18_BothFilesPresent ==
    pc = "done" =>
        /\ RosterOrder
        /\ Exists(files, "repo_stats.json") /\ files["repo_stats.json"] = repo_stats
        /\ Exists(files, filename) /\ files[filename] = repo_stats

\* C18: the list of records, one per group in roster order, is written to
\* both files; the clean-up then removes the dated snapshot, and after a
\* completed run only repo_stats.json is present, holding the list.
C18_SnapshotRemoved ==
    /\ pc \in {"hub", "cleanup"} =>
          /\ RosterOrder
          /\ Exists(files, "repo_stats.json") /\ files["repo_stats.json"] = repo_stats
          /\ Exists(files, filename) /\ files[filename] = repo_stats
    /\ pc = "done" =>
          /\ RosterOrder
          /\ Exists(files, "repo_stats.json") /\ files["repo_stats.json"] = repo_stats
          /\ ~Exists(files, filename)

\* a run over an accessible and an inaccessible repository completed
C18_Witness ==
    /\ pc = "done"
    /\ Len(groups) = 2
    /\ Probed(1, TRUE)
    /\ Probed(2, FALSE)
    /\ Len(files["repo_stats.json"]) = 2

\* C26: inaccessible is terminal for a group: from the probe that returned
\* False until the group's record is appended, scrape is only at the branch,
\* the else-branch or the append, and the requests issued for the group are
\* the HEAD requests of that one probe, no request to the data source.
C26_InaccessibleIsTerminal ==
    (index <= Len(groups) /\ Probed(index, FALSE)) =>
        /\ pc \in {"branch", "else", "append"}
        /\ Len(probes) >= 1
        /\ Len(requests) = probes[1].sent
        /\ \A j \in 1..Len(requests) : requests[j].method = "HEAD"

\* the second group was probed with two HEAD requests, found inaccessible,
\* asked again at the branch, and is about to have its record appended
C26_Witness ==
    /\ pc = "append"
    /\ Len(groups) = 2
    /\ index = 2
    /\ Probed(2, FALSE)
    /\ Len(probes) = 2
    /\ probes[1].sent = 2
    /\ probes[2].sent = 0
    /\ Len(requests) = 2
    /\ Probed(1, TRUE)
    /\ Len(repo_stats) = 1
    /\ locals.num_commits_to_main = None

(***************************************************************************)
(* SpecPaging: GroupInfo.prs, then GroupInfo.commits, on one repository     *)
(***************************************************************************)
MaxPages == 2

\* numbers of items around the page size
ListingSizes == { 0, 1, per_page - 1, per_page, per_page + 1, MaxPages * per_page }

\* a repository with np pull requests and nc commits
RepoOfSize(np, nc) ==
    [RepoEmpty EXCEPT
        !.prs     = [i \in 1..np |-> [number |-> i, merged_at |-> None]],
        !.commits = [i \in 1..nc |->
                        Commit(IsoDate(i + 1, 10, 0), <<"c">>, None, <<"n">>, None, <<"n">>)]]

InitPaging ==
    /\ groups = << SetAttr(GroupInfo(1, RepoUrl("org", 1)), "_repo_accessible", Some(TRUE)) >>
    /\ \E np \in ListingSizes, nc \in ListingSizes : github = << RepoOfSize(np, nc) >>
    /\ index = 1
    /\ pc = "prs"
    /\ locals = Assign(NoLocals, [prs |-> <<>>])
    /\ repo_stats = <<>>
    /\ files = <<>>
    /\ requests = <<>>
    /\ probes = <<>>
    /\ page_counter = 1
    /\ exc = None
    /\ call_args = None
    /\ call_ret = None

NextPaging == PrsPage \/ CommitsPage

SpecPaging == InitPaging /\ [][NextPaging]_vars

\* the pages requested of a listing, in the order of the requests
PagesRequested(endpoint) ==
    LET sent == SelectSeq(requests, LAMBDA r : r.url = Api \o <<endpoint>>)
    IN  [i \in 1..Len(sent) |-> sent[i].page]

\* the number of non-empty pages of a listing
NonEmptyPages(listing) == (Len(listing) + per_page - 1) \div per_page

OneTo(n) == [i \in 1..n |-> i]

\* C5: each paged listing requests pages 1, 2, 3, ... in order, stops at the
\* first empty page and returns the concatenation of the pages before it:
\* k non-empty pages make exactly k + 1 requests, whether the last populated
\* page is full or short.
C5_PagedListing ==
    /\ pc = "prs" =>
          PagesRequested("pulls") = OneTo(page_counter - 1)
    /\ pc \in {"commits", "stats"} =>
          /\ PagesRequested("pulls") = OneTo(NonEmptyPages(Repo.prs) + 1)
          /\ locals.prs = Repo.prs
    /\ pc = "commits" =>
          PagesRequested("commits") = OneTo(page_counter - 1)
    /\ pc = "stats" =>
          /\ PagesRequested("commits") = OneTo(NonEmptyPages(Repo.commits) + 1)
          /\ locals.commits = Repo.commits

\* both listings returned: one whose last populated page is full, one whose
\* last populated page is short
C5_Witness ==
    /\ pc = "stats"
    /\ Len(Repo.prs) = per_page
    /\ PagesRequested("pulls") = <<1, 2>>
    /\ Len(Repo.commits) = per_page + 1
    /\ PagesRequested("commits") = <<1, 2, 3>>

(***************************************************************************)
(* SpecContent: RepoContent.repo_size applied to bounded file trees         *)
(***************************************************************************)
MaxTree == 3

\* blobs carry a size, directories and symlinks do not
SampleEntries ==
    { [path |-> <<"Dockerfile">>, size |-> 300],
      [path |-> <<"src/", "train", ".py">>, size |-> 1048576],
      [path |-> <<"README", ".md">>, size |-> 0],
      [path |-> <<"src/">>],
      [path |-> <<"link">>, type |-> "symlink"] }

InitContent ==
    /\ ScrapeIdle
    /\ \E tree \in SeqsUpTo(SampleEntries, MaxTree) \cup {<<>>} :
          call_args = [file_tree |-> tree]
    /\ call_ret = None

CallRepoSize ==
    /\ pc = "idle"
    /\ call_ret = None
    /\ "file_tree" \in DOMAIN call_args
    /\ call_ret' = Some(repo_size(call_args.file_tree))
    /\ UNCHANGED <<scrapeVars, call_args>>

NextContent == CallRepoSize

SpecContent == InitContent /\ [][NextContent]_vars

\* an entry's contribution to the size: its size field, nothing without one
SizeOrZero(f) == IF "size" \in DOMAIN f THEN f.size ELSE 0

SizeReturned == call_ret # None /\ "file_tree" \in DOMAIN call_args

\* C6: repo_size is the sum of the size fields of the entries that carry
\* one, divided by 1024^2; entries without a size add nothing and raise
\* nothing; a tree with no sized entry gives 0.
C6_RepoSize ==
    SizeReturned =>
        LET tree  == call_args.file_tree
            bytes == SumSeq([i \in 1..Len(tree) |-> SizeOrZero(tree[i])])
        IN  /\ call_ret[1].exc = None
            /\ call_ret[1].value # None
            /\ call_ret[1].value[1].num = bytes
            /\ call_ret[1].value[1].den = 1024 * 1024
            /\ ((\A i \in 1..Len(tree) : "size" \notin DOMAIN tree[i])
                   => call_ret[1].value[1].num = 0)

\* a tree mixing sized entries with a directory and a symlink
C6_Witness ==
    /\ SizeReturned
    /\ \E i \in 1..Len(call_args.file_tree) : "size" \notin DOMAIN call_args.file_tree[i]
    /\ call_ret[1].exc = None
    /\ call_ret[1].value[1].num = 1048576 + 300

(***************************************************************************)
(* SpecActions: the loop of RepoContent.actions_passing applied to bounded  *)
(* lists of workflow runs                                                   *)
(***************************************************************************)
MaxRuns == 3

\* the runs the data source lists for push events on the default branch: on
\* the latest commit or on an earlier one; completed with a conclusion, or
\* still running with none
SampleRuns ==
    { [head_sha |-> sha, status |-> "completed", conclusion |-> Some(c)] :
          sha \in {"sha1", "sha0"}, c \in {"success", "failure"} }
        \cup { [head_sha |-> sha, status |-> "in_progress", conclusion |-> None] :
                  sha \in {"sha1", "sha0"} }

InitActions ==
    /\ ScrapeIdle
    /\ \E runs \in SeqsUpTo(SampleRuns, MaxRuns) \cup {<<>>} :
          call_args = [workflow_runs |-> runs, latest_commit |-> "sha1"]
    /\ call_ret = None

CallActionsPassing ==
    /\ pc = "idle"
    /\ call_ret = None
    /\ "workflow_runs" \in DOMAIN call_args
    /\ call_ret' = Some(AllPassing(call_args.workflow_runs, call_args.latest_commit))
    /\ UNCHANGED <<scrapeVars, call_args>>

NextActions == CallActionsPassing

SpecActions == InitActions /\ [][NextActions]_vars

\* the runs of the listing whose head SHA is the latest commit
MatchingRuns ==
    SelectSeq(call_args.workflow_runs, LAMBDA w : w.head_sha = call_args.latest_commit)

ActionsReturned == call_ret # None /\ "workflow_runs" \in DOMAIN call_args

\* C17: actions_passing is True exactly when every listed run whose head SHA
\* is the latest commit has status completed and conclusion success; runs on
\* other SHAs do not count, and with no matching run the result is True.
C17_ActionsPassing ==
    ActionsReturned =>
        /\ call_ret[1] = (\A i \in 1..Len(MatchingRuns) :
                              /\ MatchingRuns[i].status = "completed"
                              /\ MatchingRuns[i].conclusion = Some("success"))
        /\ (MatchingRuns = <<>> => call_ret[1] = TRUE)

\* a failed run on an earlier commit next to a successful run on the latest
\* one: reported as passing
C17_Witness ==
    /\ ActionsReturned
    /\ call_ret[1] = TRUE
    /\ Len(MatchingRuns) = 1
    /\ \E i \in 1..Len(call_args.workflow_runs) :
          /\ call_args.workflow_runs[i].head_sha = "sha0"
          /\ call_args.workflow_runs[i].conclusion = Some("failure")

(***************************************************************************)
(* SpecClone: clone  (scraper/main.py 233-265)                              *)
(*                                                                          *)
(* groups, index, pc and exc are the roster, the loop position, the         *)
(* statement and the exception of clone; files holds the directories (a     *)
(* path is the tuple of its components, its value "dir" for an empty        *)
(* directory and "repo" for one that holds a clone); call_ret is the        *)
(* sequence of git invocations with the line logged for each.               *)
(***************************************************************************)
\* os.makedirs: the directory and the ancestors that are missing
makedirs(fs, path) ==
    LET new == { SubSeq(path, 1, k) : k \in 1..Len(path) } \ DOMAIN fs
    IN  [n \in DOMAIN fs \cup new |-> IF n \in new THEN "dir" ELSE fs[n]]

\* line 248: os.path.join(base_dir, f"group_{group_number}")
group_dir(base_dir, group) == <<base_dir, <<"group_", group.group_number>>>>

\* line 253: repo_url.split("/")[-1].replace(".git", ""); the last segment of
\* the URL is the tuple of its parts, ".git" one of them
repo_name(repo_url) == SelectSeq(repo_url[Len(repo_url)], LAMBDA part : part # ".git")

\* line 256
repo_dir(base_dir, group) == Append(group_dir(base_dir, group), repo_name(group.repo_url))

\* subprocess.run(["git", "clone", repo_url, repo_dir], check=True): git cannot be
\* started, or it exits non-zero (always so into a directory that is not
\* empty), or it clones
GitClone(fs, dir, git) ==
    IF ~git THEN {"FileNotFoundError"}
    ELSE IF fs[dir] = "repo" THEN {"CalledProcessError"}
    ELSE {"ok", "CalledProcessError"}

CloneCaught_Nothing(exception) == FALSE

\* line 264: except subprocess.CalledProcessError
CloneCaught(exception) == exception = "CalledProcessError"

\* the last segments of the repository URLs of the roster
SampleRepoNames == { <<"r1">>, <<"r1", ".git">>, <<"r2">> }

\* what the directory of a group holds before the run: nothing, the group
\* directory, an empty repository directory, or an earlier clone
DirsBefore(base_dir, group, had) ==
    CASE had = "none"      -> <<>>
      [] had = "group_dir" -> makedirs(<<>>, group_dir(base_dir, group))
      [] had = "empty"     -> makedirs(<<>>, repo_dir(base_dir, group))
      [] had = "repo"      -> [makedirs(<<>>, repo_dir(base_dir, group))
                                  EXCEPT ![repo_dir(base_dir, group)] = "repo"]

\* the union of directory trees (a clone wins over a plain directory)
RECURSIVE MergeDirs(_)
MergeDirs(trees) ==
    IF trees = <<>> THEN <<>>
    ELSE LET a == Head(trees)
             b == MergeDirs(Tail(trees))
         IN  [n \in DOMAIN a \cup DOMAIN b |->
                 IF n \in DOMAIN a /\ a[n] = "repo" THEN "repo"
                 ELSE IF n \in DOMAIN b THEN b[n] ELSE a[n]]

InitClone ==
    /\ \E n \in 0..MaxGroups :
          \E names \in [1..n -> SampleRepoNames],
             had \in [1..n -> {"none", "group_dir", "empty", "repo"}] :
             /\ groups = [i \in 1..n |-> GroupInfo(i, RepoUrl("org", names[i]))]
             /\ files = MergeDirs([i \in 1..n |->
                             DirsBefore("cloned_repos", groups[i], had[i])])
    /\ call_args \in [base_dir : {"cloned_repos"}, git : BOOLEAN]
    /\ github = <<>>
    /\ index = 1
    /\ pc = "clone_start"
    /\ locals = NoLocals
    /\ repo_stats = <<>>
    /\ requests = <<>>
    /\ probes = <<>>
    /\ page_counter = 0
    /\ exc = None
    /\ call_ret = <<>>

\* lines 236-241
CloneStart ==
    /\ pc = "clone_start"
    /\ files' = IF ~Exists(files, <<call_args.base_dir>>)
                THEN makedirs(files, <<call_args.base_dir>>) ELSE files
    /\ pc' = IF Len(groups) = 0 THEN "done" ELSE "clone_group"
    /\ UNCHANGED <<groups, github, index, locals, repo_stats, requests, probes,
                   page_counter, exc, callVars>>

\* lines 243-265: one turn of the loop over the groups
CloneGroup ==
    /\ pc = "clone_group"
    /\ LET group == groups[index]
           gdir  == group_dir(call_args.base_dir, group)
           fs1   == IF ~Exists(files, gdir) THEN makedirs(files, gdir) ELSE files
           rdir  == repo_dir(call_args.base_dir, group)
           fs2   == IF ~Exists(fs1, rdir) THEN makedirs(fs1, rdir) ELSE fs1
           argv  == <<"git", "clone", group.repo_url, rdir>>
       IN  \E outcome \in GitClone(fs2, rdir, call_args.git) :
              IF outcome = "ok"
              THEN /\ files' = [fs2 EXCEPT ![rdir] = "repo"]
                   /\ call_ret' = Append(call_ret,
                          [argv |-> argv, logged |-> "Successfully cloned"])
                   /\ index' = index + 1
                   /\ pc' = IF index + 1 > Len(groups) THEN "done" ELSE pc
                   /\ exc' = exc
              ELSE IF CloneCaught(outcome)
              THEN /\ files' = fs2
                   /\ call_ret' = Append(call_ret,
                          [argv |-> argv, logged |-> "Failed to clone"])
                   /\ index' = index + 1
                   /\ pc' = IF index + 1 > Len(groups) THEN "done" ELSE pc
                   /\ exc' = exc
              ELSE /\ files' = fs2
                   /\ Raise(outcome)
                   /\ UNCHANGED <<call_ret, index>>
    /\ UNCHANGED <<groups, github, locals, repo_stats, requests, probes, page_counter,
                   call_args>>

NextClone == CloneStart \/ CloneGroup

SpecClone == InitClone /\ [][NextClone]_vars

MaxMergedPrs == 2

\* numbers of commits of a pull request around the page size of the request
PrSizes == { 0, 1, default_per_page - 1, default_per_page, default_per_page + 1 }

\* n commits made in a pull request by the account <<"a", "b">>
CommitsOfPr(n) ==
    [i \in 1..n |-> Commit(IsoDate(2, 9, 0), <<"p", "r">>,
                           Some(<<"a", "b">>), <<"x">>, None, <<"y">>)]

\* a repository with one commit on the default branch and merged pull
\* requests 1..Len(sizes), pull request p holding sizes[p] commits
RepoWithPrs(sizes) ==
    [RepoEmpty EXCEPT
        !.contributors = << [login |-> <<"a", "b">>, contributions |-> 1] >>,
        !.prs          = [p \in 1..Len(sizes) |->
                             [number |-> p, merged_at |-> Some(IsoDate(3, 12, 0))]],
        !.commits      = << Commit(IsoDate(1, 10, 0), <<"i", "n", "i", "t">>,
                                   Some(<<"a", "b">>), <<"x">>, None, <<"y">>) >>,
        !.pr_commits   = [p \in 1..Len(sizes) |-> CommitsOfPr(sizes[p])]]

\* the pull requests of the repository: at most one of them holds more than
\* one commit
SamplePrSizes ==
    { sizes \in SeqsUpTo(PrSizes, MaxMergedPrs) :
          Cardinality({ p \in 1..Len(sizes) : sizes[p] > 1 }) <= 1 }

InitPrCommits ==
    /\ groups = << SetAttr(GroupInfo(1, RepoUrl("org", 1)), "_repo_accessible", Some(TRUE)) >>
    /\ \E sizes \in SamplePrSizes :
          /\ github = << RepoWithPrs(sizes) >>
          /\ locals = Assign(NoLocals,
                 [contributors    |-> << Contributor(<<"a", "b">>, 1) >>,
                  prs             |-> github[1].prs,
                  commits         |-> github[1].commits,
                  commit_messages |-> Messages(github[1].commits),
                  merged_prs      |-> MergedPrs(github[1].prs),
                  pr_index        |-> 1])
    /\ index = 1
    /\ pc = "pr_commits"
    /\ repo_stats = <<>>
    /\ files = <<>>
    /\ requests = <<>>
    /\ probes = <<>>
    /\ page_counter = 1
    /\ exc = None
    /\ call_args = None
    /\ call_ret = None

NextPrCommits == PrCommits \/ ActivityAndTotals

SpecPrCommits == InitPrCommits /\ [][NextPrCommits]_vars

\* the commits the merged pull requests of the repository hold in all
NumPrCommits == SumSeq([p \in 1..Len(Repo.pr_commits) |-> Len(Repo.pr_commits[p])])

\* C20: the commits of every merged pull request are fetched page after page
\* until the first empty page, so all of them, however many, are attributed
\* and appended to the extended commit sequence.
C20_AllPrCommitsFetched ==
    pc = "default_branch" =>
        /\ Len(locals.commits) = Len(Repo.commits) + NumPrCommits
        /\ locals.contributors[1].commits_pr = NumPrCommits

(***************************************************************************)
(* SpecMergedPrs: lines 73-130 of scrape on one repository whose pull       *)
(* requests are merged or not and may hold a commit of the default branch   *)
(***************************************************************************)
MaxPrs == 2

\* the commit of the default branch, and a commit made in a pull request only
MainCommit ==
    Commit(IsoDate(1, 10, 0), <<"i", "n", "i", "t">>, Some(<<"a", "b">>), <<"x">>, None, <<"y">>)

BranchCommit ==
    Commit(IsoDate(2, 9, 0), <<"p", "r">>, Some(<<"a", "b">>), <<"x">>, None, <<"y">>)

\* the commit lists a pull request may hold
SamplePrCommits ==
    { <<>>, <<MainCommit>>, <<BranchCommit>>, <<MainCommit, BranchCommit>> }

\* a repository whose default branch holds MainCommit, with pull requests
\* 1..Len(merged): pull request p is merged when merged[p], and holds held[p]
RepoWithMergedPrs(merged, held) ==
    [RepoEmpty EXCEPT
        !.contributors = << [login |-> <<"a", "b">>, contributions |-> 1] >>,
        !.prs          = [p \in 1..Len(merged) |->
                             [number    |-> p,
                              merged_at |-> IF merged[p] THEN Some(IsoDate(3, 12, 0))
                                            ELSE None]],
        !.commits      = << MainCommit >>,
        !.pr_commits   = held]

InitMergedPrs ==
    /\ groups = << SetAttr(GroupInfo(1, RepoUrl("org", 1)), "_repo_accessible", Some(TRUE)) >>
    /\ \E n \in 0..MaxPrs :
          \E merged \in [1..n -> BOOLEAN], held \in [1..n -> SamplePrCommits] :
             /\ github = << RepoWithMergedPrs(merged, held) >>
             /\ locals = Assign(NoLocals,
                    [contributors     |-> << Contributor(<<"a", "b">>, 1) >>,
                     num_contributors |-> Some(1),
                     prs              |-> github[1].prs,
                     num_prs          |-> Some(n),
                     commits          |-> github[1].commits])
    /\ index = 1
    /\ pc = "stats"
    /\ repo_stats = <<>>
    /\ files = <<>>
    /\ requests = <<>>
    /\ probes = <<>>
    /\ page_counter = 1
    /\ exc = None
    /\ call_args = None
    /\ call_ret = None

NextMergedPrs == CommitStats \/ PrCommits \/ ActivityAndTotals

SpecMergedPrs == InitMergedPrs /\ [][NextMergedPrs]_vars

\* the pull requests of the repository whose merged_at is not null, from the
\* i-th on, in the order of the listing
RECURSIVE MergedNumbers(_)
MergedNumbers(i) ==
    IF i > Len(Repo.prs) THEN <<>>
    ELSE (IF Repo.prs[i].merged_at # None THEN <<Repo.prs[i].number>> ELSE <<>>)
             \o MergedNumbers(i + 1)

\* the commits the data source returns for the pull requests `numbers`, one
\* list after the other
RECURSIVE FetchedCommits(_)
FetchedCommits(numbers) ==
    IF numbers = <<>> THEN <<>>
    ELSE Page(Repo.pr_commits[Head(numbers)], 1, default_per_page)
             \o FetchedCommits(Tail(numbers))

\* the sum of the cells of the activity matrix in the locals
LocalMatrixSum ==
    SumSeq([d \in 1..Len(locals.activity_matrix[1]) |->
               SumSeq(locals.activity_matrix[1][d])])

\* C21: the commit lists of exactly the merged pull requests are fetched and
\* concatenated after the commits of the default branch, duplicates kept: the
\* sequence given to the activity matrix and the message list have length
\* (default-branch commits) + (fetched commits of the merged pull requests),
\* while num_commits_to_main and average_commit_length_to_main stay those of
\* the default branch.
C21_Concatenated ==
    pc = "default_branch" =>
        /\ [j \in 1..Len(requests) |-> requests[j].url]
              = [j \in 1..Len(MergedNumbers(1)) |->
                    Api \o <<"pulls", MergedNumbers(1)[j], "commits">>]
        /\ locals.commits = Repo.commits \o FetchedCommits(MergedNumbers(1))
        /\ locals.commit_messages = Messages(locals.commits)
        /\ Len(locals.commit_messages)
              = Len(Repo.commits) + Len(FetchedCommits(MergedNumbers(1)))
        /\ LocalMatrixSum = Len(locals.commits)
        /\ locals.num_commits_to_main = Some(Len(Repo.commits))
        /\ locals.average_commit_length_to_main
              = Some(TrueDiv(SumSeq(MessageLengths(Messages(Repo.commits))),
                             Len(Repo.commits)))

\* a merged pull request holding the commit of the default branch next to a
\* pull request that was not merged: the commit is counted twice, the commits
\* of the other pull request are not fetched
C21_Witness ==
    /\ pc = "default_branch"
    /\ Len(Repo.prs) = 2
    /\ Repo.prs[1].merged_at # None
    /\ Repo.prs[2].merged_at = None
    /\ Repo.pr_commits[1] = <<MainCommit>>
    /\ Repo.pr_commits[2] = <<BranchCommit>>
    /\ locals.commits = <<MainCommit, MainCommit>>
    /\ LocalMatrixSum = 2
    /\ locals.num_commits_to_main = Some(1)

(***************************************************************************)
(* SpecFileTree: reads of the file-tree properties of RepoContent           *)
(* instances (scraper/models.py 106-168), in any order and number.          *)
(*                                                                          *)
(* locals.repo_content is the sequence of instances (two, made for the same *)
(* repository), github[k] what the data source holds for instance k,        *)
(* call_ret the reads made so far.                                          *)
(***************************************************************************)
MaxReads == 3

\* the tree of the repository after a later push
ChangedTree == Append(RepoFull.tree, [path |-> <<"requirements.txt">>, size |-> 10])

InitFileTree ==
    /\ locals = [repo_content |->
                   << [repo_api       |-> repo_api(GroupInfo(1, RepoUrl("org", 1))),
                       default_branch |-> "main"],
                      [repo_api       |-> repo_api(GroupInfo(2, RepoUrl("org", 1))),
                       default_branch |-> "main"] >>]
    /\ github = << RepoFull, RepoFull >>
    /\ groups = <<>>
    /\ index = 1
    /\ pc = "reading"
    /\ repo_stats = <<>>
    /\ files = <<>>
    /\ requests = <<>>
    /\ probes = <<>>
    /\ page_counter = 0
    /\ exc = None
    /\ call_args = None
    /\ call_ret = <<>>

\* one read of a file-tree property of instance k; a failed fetch leaves the
\* property as an exception, which no caller in the program catches
ReadProperty ==
    /\ pc = "reading"
    /\ Len(call_ret) < MaxReads
    /\ \E k \in 1..Len(locals.repo_content), n \in 1..Len(TreeProperties) :
       \E tree \in {github[k].tree, ChangedTree} :
          \E a1 \in Answers([object |-> [sha |-> github[k].head_sha]]),
             a2 \in Answers([tree |-> tree]) :
             LET self == locals.repo_content[k]
                 t    == file_tree(self, a1, a2)
                 v    == TreeProperty(TreeProperties[n], t.value)
             IN  /\ requests' = requests \o t.requests
                 /\ IF t.exc # None
                    THEN Raise(t.exc[1]) /\ UNCHANGED <<locals, call_ret>>
                    ELSE /\ locals' = [locals EXCEPT !.repo_content[k] = t.self]
                         /\ call_ret' = Append(call_ret,
                                [instance |-> k, name |-> TreeProperties[n],
                                 value |-> v.value, sent |-> Len(t.requests)])
                         /\ UNCHANGED <<pc, exc>>
    /\ UNCHANGED <<groups, github, index, repo_stats, files, probes, page_counter,
                   call_args>>

NextFileTree == ReadProperty

SpecFileTree == InitFileTree /\ [][NextFileTree]_vars

\* the reads made of instance k, in order
ReadsOf(k) == SelectSeq(call_ret, LAMBDA e : e.instance = k)

\* C24: on one RepoContent instance only the first read of a file-tree
\* property issues the branch-ref and tree requests; every later read, of any
\* property and in any order, issues none and is computed from the tree the
\* first read stored; each instance fetches its own tree.
C24_TreeFetchedOnce ==
    /\ \A k \in 1..Len(locals.repo_content) :
          /\ \A j \in 1..Len(ReadsOf(k)) :
                /\ ReadsOf(k)[j].sent = (IF j = 1 THEN 2 ELSE 0)
                /\ HasAttr(locals.repo_content[k], "_file_tree")
                /\ ReadsOf(k)[j].value
                      = TreeProperty(ReadsOf(k)[j].name,
                                     locals.repo_content[k]._file_tree).value
    /\ pc = "reading" =>
          Len(requests)
            = 2 * Cardinality({ k \in 1..Len(locals.repo_content) : ReadsOf(k) # <<>> })

\* two instances of the same repository, the first read twice: each fetched
\* its own tree (the repository had changed in between) and the second read
\* of the first instance sent nothing
C24_Witness ==
    /\ Len(call_ret) = 3
    /\ locals.repo_content[1].repo_api = locals.repo_content[2].repo_api
    /\ call_ret[1].instance = 1
    /\ call_ret[2].instance = 2
    /\ call_ret[3].instance = 1
    /\ call_ret[3].name # call_ret[1].name
    /\ call_ret[3].sent = 0
    /\ locals.repo_content[1]._file_tree # locals.repo_content[2]._file_tree
    /\ Len(requests) = 4

(***************************************************************************)
(* SpecRateLimited: GroupInfo.prs, then GroupInfo.commits, against a data   *)
(* source that answers an error object from some request on                 *)
(* (common/models.py 95-129).  The loops have no bound of their own; the    *)
(* exploration stops after MaxRequests requests.                            *)
(***************************************************************************)
MaxRequests == 4

\* the requests answered before the rate limit is reached
RateLimits == 0..3

InitRateLimited ==
    /\ groups = << SetAttr(GroupInfo(1, RepoUrl("org", 1)), "_repo_accessible", Some(TRUE)) >>
    /\ \E np \in {0, 1, per_page + 1}, nc \in {0, 1, per_page + 1}, limit \in RateLimits :
          github = << [ f \in DOMAIN RepoEmpty \cup {"rate_limit"} |->
                          IF f = "rate_limit" THEN limit ELSE RepoOfSize(np, nc)[f] ] >>
    /\ index = 1
    /\ pc = "prs"
    /\ locals = Assign(NoLocals, [prs |-> <<>>])
    /\ repo_stats = <<>>
    /\ files = <<>>
    /\ requests = <<>>
    /\ probes = <<>>
    /\ page_counter = 1
    /\ exc = None
    /\ call_args = None
    /\ call_ret = None

NextRateLimited == Len(requests) < MaxRequests /\ (PrsPage \/ CommitsPage)

SpecRateLimited == InitRateLimited /\ [][NextRateLimited]_vars

\* the listing the loop at pc is paging through
ListingAt(at) == IF at = "prs" THEN Repo.prs ELSE Repo.commits

\* C25: the paged loops test only the length of the decoded response and
\* have no page cap: a turn answered by a non-empty payload, the rate-limit
\* error object included, stays in the loop, requests the next page and
\* issues one more request; the loop is left only by a turn whose page has
\* length 0.
C25_LoopEndsOnlyOnEmptyPage ==
    [][ (pc \in {"prs", "commits"} /\ pc' # "raised") =>
          /\ Len(requests') = Len(requests) + 1
          /\ requests'[Len(requests')].page = page_counter
          /\ RateLimited(Repo, Len(requests)) =>
                /\ pc' = pc
                /\ page_counter' = page_counter + 1
          /\ pc' # pc =>
                /\ ~RateLimited(Repo, Len(requests))
                /\ Len(Page(ListingAt(pc), page_counter, per_page)) = 0
          /\ pc' = pc =>
                /\ page_counter' = page_counter + 1
                /\ \/ RateLimited(Repo, Len(requests))
                   \/ Len(Page(ListingAt(pc), page_counter, per_page)) > 0
      ]_vars

\* a listing of one page whose second request was already answered by the
\* error object: the loop is still running pages past the end of the listing
C25_Witness ==
    /\ pc = "prs"
    /\ Len(Repo.prs) = 1
    /\ Repo.rate_limit = 1
    /\ Len(requests) = 4
    /\ page_counter = 5
    /\ PagesRequested("pulls") = <<1, 2, 3, 4>>

====
